---- MODULE Spec2Model ----
(***************************************************************************)
(* Model of package tdl (src/damerau-levenshtein.go): the engine           *)
(* TrueDamerauLevenshtein {maxSize, matrix, da}, its constructor New and   *)
(* its method Distance, translated statement by statement.                 *)
(*                                                                         *)
(* The package function Distance (lines 18-25) is the method on the one    *)
(* engine New(100); the model checks the method on smaller engines.        *)
(*                                                                         *)
(* A string is a sequence of bytes (integers 0..255), as a Go string is.   *)
(* A call of Distance is a frame (the method's locals and its position);   *)
(* Step executes the statement the frame stands at on the engine, and      *)
(* Distance runs Step until the call returns or panics.                    *)
(***************************************************************************)
EXTENDS Integers, Sequences, FiniteSets, TLC

VARIABLES
    maxSize, matrix, da,    \* the fields of the engine t
    frames,                 \* the calls of Distance on t, one per caller
    ncalls,                 \* the number of calls made on t
    other,                  \* a related call on a second engine (SpecFresh, SpecEdit)
    overlapped              \* the two callers' calls overlapped in time (SpecConc)

vars == <<maxSize, matrix, da, frames, ncalls, other, overlapped>>

-----------------------------------------------------------------------------
(* Bounds of the model. *)

\* longest input of the sequential-use specification Spec
MaxLen == 3
\* largest engine capacity New is called with in Spec
MaxK == 5
\* number of Distance calls made on one engine in Spec
MaxCalls == 2

\* the bytes the inputs of Spec are made of: 'a' and the lone lead byte 0xC3
HistAlphabet == {97, 195}

Strs(alphabet, n) == UNION {[1..m -> alphabet] : m \in 0..n}

-----------------------------------------------------------------------------
(* Go semantics the method relies on. *)

\* utf8.RuneError, what range yields for a byte that starts no valid encoding
RuneError == 65533

\* b is a UTF-8 continuation byte within [lo, hi]
Cont(s, p, lo, hi) == p <= Len(s) /\ s[p] >= lo /\ s[p] <= hi

\* The rune and the width `range` decodes at position p of s.
DecodeRune(s, p) ==
    LET b0 == s[p]
        low(x) == x % 64
    IN  IF b0 < 128 THEN [r |-> b0, w |-> 1]
        ELSE IF b0 >= 194 /\ b0 <= 223 /\ Cont(s, p + 1, 128, 191)
            THEN [r |-> (b0 % 32) * 64 + low(s[p + 1]), w |-> 2]
        ELSE IF b0 >= 224 /\ b0 <= 239
                /\ Cont(s, p + 1, IF b0 = 224 THEN 160 ELSE 128,
                                  IF b0 = 237 THEN 159 ELSE 191)
                /\ Cont(s, p + 2, 128, 191)
            THEN [r |-> (b0 % 16) * 4096 + low(s[p + 1]) * 64 + low(s[p + 2]),
                  w |-> 3]
        ELSE IF b0 >= 240 /\ b0 <= 244
                /\ Cont(s, p + 1, IF b0 = 240 THEN 144 ELSE 128,
                                  IF b0 = 244 THEN 143 ELSE 191)
                /\ Cont(s, p + 2, 128, 191)
                /\ Cont(s, p + 3, 128, 191)
            THEN [r |-> (b0 % 8) * 262144 + low(s[p + 1]) * 4096
                        + low(s[p + 2]) * 64 + low(s[p + 3]),
                  w |-> 4]
        ELSE [r |-> RuneError, w |-> 1]

RECURSIVE RunesFrom(_, _)
RunesFrom(s, p) ==
    IF p > Len(s) THEN << >>
    ELSE LET d == DecodeRune(s, p) IN <<d.r>> \o RunesFrom(s, p + d.w)

\* the runes `for _, r := range s` visits, in order
Runes(s) == RunesFrom(s, 1)

\* a map[rune]int: a function on the keys present; a missing key reads 0
EmptyMap == [x \in {} |-> 0]

MapGet(m, key) == IF key \in DOMAIN m THEN m[key] ELSE 0

MapPut(m, key, v) == [x \in DOMAIN m \cup {key} |-> IF x = key THEN v ELSE m[x]]

\* an index expression m[r][c] that does not panic
InRange(m, r, c) == r \in DOMAIN m /\ c \in DOMAIN m[r]

-----------------------------------------------------------------------------
(* The package. *)

minimum(is) ==
    LET min[n \in 1..Len(is)] ==
            IF n = 1 THEN is[1]
            ELSE IF min[n - 1] > is[n] THEN is[n] ELSE min[n - 1]
    IN  min[Len(is)]

New(k) ==
    [maxSize |-> k,
     matrix  |-> [r \in 0..(k - 1) |-> [c \in 0..(k - 1) |-> 0]],
     da      |-> EmptyMap]

\* The locals of one call of Distance and the statement it stands at.
Frame(pc, a, b) ==
    [pc |-> pc, a |-> a, b |-> b, i |-> 0, j |-> 0, db |-> 0, k |-> 0, ret |-> 0]

Idle == Frame("idle", << >>, << >>)

Finished(f) == f.pc \in {"done", "panic"}

Panic(t, f) == [t |-> t, f |-> [f EXCEPT !.pc = "panic"]]

-----------------------------------------------------------------------------
(* Faulty variants of the statements below, each a slip the code could     *)
(* have made. A claim that holds of Distance must fail of the variant.     *)

\* the switch without its last case: lenB is never compared with maxSize
SwitchOnlyA(t, f) ==
    LET lenA == Len(f.a)
        lenB == Len(f.b)
        return(v) == [t |-> t, f |-> [f EXCEPT !.pc = "done", !.ret = v]]
    IN  IF lenA < 1 THEN return(lenB)
        ELSE IF lenB < 1 THEN return(lenA)
        ELSE IF lenA > t.maxSize THEN return(-1)
        ELSE [t |-> t, f |-> [f EXCEPT !.pc = "init00"]]

\* the switch with the capacity cases ahead of the empty-input cases
SwitchCapFirst(t, f) ==
    LET lenA == Len(f.a)
        lenB == Len(f.b)
        return(v) == [t |-> t, f |-> [f EXCEPT !.pc = "done", !.ret = v]]
    IN  IF lenA > t.maxSize THEN return(-1)
        ELSE IF lenB > t.maxSize THEN return(-1)
        ELSE IF lenA < 1 THEN return(lenB)
        ELSE IF lenB < 1 THEN return(lenA)
        ELSE [t |-> t, f |-> [f EXCEPT !.pc = "init00"]]

\* the reset loop left out
ResetDaSkip(t, f) == [t |-> t, f |-> [f EXCEPT !.pc = "row", !.i = 1]]

\* line 103 left out: the row's byte is never recorded
SetDaLost(t, f) == [t |-> t, f |-> [f EXCEPT !.pc = "row", !.i = f.i + 1]]

\* the inner loop's body with one term of the minimum written differently:
\* an insertion adds cost if ins = "cost" and 1 otherwise, the transposition
\* itself adds swap, and db follows a match only if track
CellVariant(t, f, ins, swap, track) ==
    IF ~(f.j <= Len(f.b)) THEN [t |-> t, f |-> [f EXCEPT !.pc = "setda"]]
    ELSE
    LET i == f.i
        j == f.j
        i1 == MapGet(t.da, f.b[j])
        j1 == f.db
        eq == f.a[i] = f.b[j]
        cost == IF eq THEN 0 ELSE 1
        db == IF eq /\ track THEN j ELSE f.db
        m == t.matrix
    IN  IF ~(InRange(m, i, j) /\ InRange(m, i + 1, j) /\ InRange(m, i, j + 1)
             /\ InRange(m, i1, j1) /\ InRange(m, i + 1, j + 1))
        THEN Panic(t, [f EXCEPT !.db = db])
        ELSE [t |-> [t EXCEPT !.matrix[i + 1][j + 1] =
                        minimum(<<m[i][j] + cost,
                                  m[i + 1][j] + (IF ins = "cost" THEN cost ELSE 1),
                                  m[i][j + 1] + 1,
                                  m[i1][j1] + (i - i1 - 1) + swap + (j - j1 - 1)>>)],
              f |-> [f EXCEPT !.db = db, !.j = j + 1]]

\* line 98 with cost in place of 1
CellInsertCost(t, f) == CellVariant(t, f, "cost", 1, TRUE)

\* line 100 without its + 1
CellFreeSwap(t, f) == CellVariant(t, f, "one", 0, TRUE)

\* line 92 left out
CellNoDb(t, f) == CellVariant(t, f, "one", 1, FALSE)

-----------------------------------------------------------------------------
(* Distance, statement by statement. *)

\* lines 58-68: the switch on the lengths
Switch(t, f) ==
    LET lenA == Len(f.a)
        lenB == Len(f.b)
        return(v) == [t |-> t, f |-> [f EXCEPT !.pc = "done", !.ret = v]]
    IN  IF lenA < 1 THEN return(lenB)
        ELSE IF lenB < 1 THEN return(lenA)
        ELSE IF lenA > t.maxSize THEN return(-1)
        ELSE IF lenB > t.maxSize THEN return(-1)
        ELSE [t |-> t, f |-> [f EXCEPT !.pc = "init00"]]

\* line 70
Init00(t, f) ==
    IF ~InRange(t.matrix, 0, 0) THEN Panic(t, f)
    ELSE [t |-> [t EXCEPT !.matrix[0][0] = Len(f.a) + Len(f.b) + 1],
          f |-> [f EXCEPT !.pc = "rows", !.i = 0]]

\* lines 71-74, one iteration
RowsInit(t, f) ==
    IF ~(f.i <= Len(f.a)) THEN [t |-> t, f |-> [f EXCEPT !.pc = "cols", !.j = 0]]
    ELSE IF ~InRange(t.matrix, f.i + 1, 1) THEN Panic(t, f)
    ELSE LET m1 == [t.matrix EXCEPT ![f.i + 1][1] = f.i]
         IN  IF ~(InRange(m1, f.i + 1, 0) /\ InRange(m1, 0, 0)) THEN Panic([t EXCEPT !.matrix = m1], f)
             ELSE [t |-> [t EXCEPT !.matrix = [m1 EXCEPT ![f.i + 1][0] = m1[0][0]]],
                   f |-> [f EXCEPT !.i = f.i + 1]]

\* lines 75-78, one iteration
ColsInit(t, f) ==
    IF ~(f.j <= Len(f.b)) THEN [t |-> t, f |-> [f EXCEPT !.pc = "reset", !.k = 1]]
    ELSE IF ~InRange(t.matrix, 1, f.j + 1) THEN Panic(t, f)
    ELSE LET m1 == [t.matrix EXCEPT ![1][f.j + 1] = f.j]
         IN  IF ~(InRange(m1, 0, f.j + 1) /\ InRange(m1, 0, 0)) THEN Panic([t EXCEPT !.matrix = m1], f)
             ELSE [t |-> [t EXCEPT !.matrix = [m1 EXCEPT ![0][f.j + 1] = m1[0][0]]],
                   f |-> [f EXCEPT !.j = f.j + 1]]

\* lines 80-82, one iteration: the k-th rune of a + b
ResetDa(t, f) ==
    LET rs == Runes(f.a \o f.b)
    IN  IF f.k > Len(rs) THEN [t |-> t, f |-> [f EXCEPT !.pc = "row", !.i = 1]]
        ELSE [t |-> [t EXCEPT !.da = MapPut(t.da, rs[f.k], 0)],
              f |-> [f EXCEPT !.k = f.k + 1]]

\* lines 84-86: the outer loop's test, db := 0, j := 1
RowStart(t, f) ==
    IF f.i <= Len(f.a) THEN [t |-> t, f |-> [f EXCEPT !.pc = "cell", !.db = 0, !.j = 1]]
    ELSE [t |-> t, f |-> [f EXCEPT !.pc = "return"]]

\* lines 86-102, one iteration of the inner loop
Cell(t, f) ==
    IF ~(f.j <= Len(f.b)) THEN [t |-> t, f |-> [f EXCEPT !.pc = "setda"]]
    ELSE
    LET i == f.i
        j == f.j
        i1 == MapGet(t.da, f.b[j])
        j1 == f.db
        eq == f.a[i] = f.b[j]
        cost == IF eq THEN 0 ELSE 1
        db == IF eq THEN j ELSE f.db
        m == t.matrix
    IN  IF ~(InRange(m, i, j) /\ InRange(m, i + 1, j) /\ InRange(m, i, j + 1)
             /\ InRange(m, i1, j1) /\ InRange(m, i + 1, j + 1))
        THEN Panic(t, [f EXCEPT !.db = db])
        ELSE [t |-> [t EXCEPT !.matrix[i + 1][j + 1] =
                        minimum(<<m[i][j] + cost,
                                  m[i + 1][j] + 1,
                                  m[i][j + 1] + 1,
                                  m[i1][j1] + (i - i1 - 1) + 1 + (j - j1 - 1)>>)],
              f |-> [f EXCEPT !.db = db, !.j = j + 1]]

\* line 103
SetDa(t, f) ==
    [t |-> [t EXCEPT !.da = MapPut(t.da, f.a[f.i], f.i)],
     f |-> [f EXCEPT !.pc = "row", !.i = f.i + 1]]

\* line 105
Return(t, f) ==
    IF ~InRange(t.matrix, Len(f.a) + 1, Len(f.b) + 1) THEN Panic(t, f)
    ELSE [t |-> t,
          f |-> [f EXCEPT !.pc = "done", !.ret = t.matrix[Len(f.a) + 1][Len(f.b) + 1]]]

\* The statement frame f stands at, executed on engine t.
Step(t, f) ==
    CASE f.pc = "switch" -> Switch(t, f)
      [] f.pc = "init00" -> Init00(t, f)
      [] f.pc = "rows"   -> RowsInit(t, f)
      [] f.pc = "cols"   -> ColsInit(t, f)
      [] f.pc = "reset"  -> ResetDa(t, f)
      [] f.pc = "row"    -> RowStart(t, f)
      [] f.pc = "cell"   -> Cell(t, f)
      [] f.pc = "setda"  -> SetDa(t, f)
      [] f.pc = "return" -> Return(t, f)

RECURSIVE Run(_)
Run(st) == IF Finished(st.f) THEN st ELSE Run(Step(st.t, st.f))

\* t.Distance(a, b), run to its return or its panic: the engine afterwards and
\* the finished frame (pc "done" with ret, or pc "panic").
Distance(t, a, b) == Run([t |-> t, f |-> Frame("switch", a, b)])

-----------------------------------------------------------------------------
(* Spec: one engine, used by one caller, call after call. *)

\* the callers of the engine; Spec, SpecCap, SpecFresh and SpecEdit use caller 1
Procs == {1, 2}

Engine == [maxSize |-> maxSize, matrix |-> matrix, da |-> da]

NoOther == [kind |-> "none", a |-> << >>, b |-> << >>, pc |-> "idle", ret |-> 0]

\* t := New(k) for some k of ks; no call made yet
Constructed(ks) ==
    /\ \E k \in ks :
         /\ maxSize = k
         /\ matrix = New(k).matrix
         /\ da = New(k).da
    /\ ncalls = 0
    /\ other = NoOther
    /\ overlapped = FALSE

Init ==
    /\ Constructed(1..MaxK)
    /\ frames = [p \in Procs |-> Idle]

\* one whole call t.Distance(a, b) on the engine
CallOn(a, b) ==
    /\ \E st \in {Distance(Engine, a, b)} :
           /\ matrix' = st.t.matrix
           /\ da' = st.t.da
           /\ frames' = [frames EXCEPT ![1] = st.f]
    /\ ncalls' = ncalls + 1
    /\ UNCHANGED <<maxSize, other, overlapped>>

Call(a, b) == ncalls < MaxCalls /\ CallOn(a, b)

Next == \E a \in Strs(HistAlphabet, MaxLen), b \in Strs(HistAlphabet, MaxLen) : Call(a, b)

Spec == Init /\ [][Next]_vars

-----------------------------------------------------------------------------
(* SpecCap: the same use of one engine, with inputs that differ in length  *)
(* only, up to and beyond the capacity.                                    *)

\* longest input of SpecCap
CapMaxLen == 4
\* largest engine capacity of SpecCap
CapMaxK == 3
\* number of calls on one engine in SpecCap
CapCalls == 2

CapAlphabet == {97}

InitCap ==
    /\ Constructed(1..CapMaxK)
    /\ frames = [p \in Procs |-> Idle]

CapCall(a, b) == ncalls < CapCalls /\ CallOn(a, b)

NextCap == \E a \in Strs(CapAlphabet, CapMaxLen), b \in Strs(CapAlphabet, CapMaxLen) : CapCall(a, b)

SpecCap == InitCap /\ [][NextCap]_vars

-----------------------------------------------------------------------------
(* SpecFresh and SpecEdit: Distance as a function of its inputs. A call is *)
(* issued on a freshly constructed engine and run; then a related call     *)
(* (the inputs swapped, or the first input changed by one edit) is run on  *)
(* a second freshly constructed engine of the same maxSize.                *)

\* longest input of SpecFresh
FreshMaxLen == 3
\* the small engine capacity of SpecFresh, next to FreshMaxLen + 2
FreshSmallK == 2
\* longest input of SpecEdit, before the edit
EditMaxLen == 2
\* the small engine capacity of SpecEdit, next to EditMaxLen + 3
EditSmallK == 1

\* "abc", and 'a' with the two bytes of U+00E9
Families == {{97, 98, 99}, {97, 195, 169}}

EditAlphabet == {97, 98, 99}

FreshPairs == UNION {Strs(F, FreshMaxLen) \X Strs(F, FreshMaxLen) : F \in Families}

EditPairs == Strs(EditAlphabet, EditMaxLen) \X Strs(EditAlphabet, EditMaxLen)

\* a call Distance(a, b) issued on a fresh engine and not yet run
Issued(ks, pairs) ==
    /\ Constructed(ks)
    /\ \E p \in pairs :
         frames = [q \in Procs |-> IF q = 1 THEN Frame("switch", p[1], p[2]) ELSE Idle]

\* the issued call, run to its end
Compute ==
    /\ frames[1].pc = "switch"
    /\ \E st \in {Run([t |-> Engine, f |-> frames[1]])} :
           /\ matrix' = st.t.matrix
           /\ da' = st.t.da
           /\ frames' = [frames EXCEPT ![1] = st.f]
    /\ ncalls' = ncalls + 1
    /\ UNCHANGED <<maxSize, other, overlapped>>

\* New(maxSize).Distance(a2, b2), recorded with how it relates to the first call
Related(kind, a2, b2) ==
    /\ Finished(frames[1])
    /\ other.kind = "none"
    /\ \E st \in {Distance(New(maxSize), a2, b2)} :
           other' = [kind |-> kind, a |-> a2, b |-> b2, pc |-> st.f.pc, ret |-> st.f.ret]
    /\ UNCHANGED <<maxSize, matrix, da, frames, ncalls, overlapped>>

Insert(s, p, c) == SubSeq(s, 1, p) \o <<c>> \o SubSeq(s, p + 1, Len(s))

Delete(s, p) == SubSeq(s, 1, p - 1) \o SubSeq(s, p + 1, Len(s))

Subst(s, p, c) == [s EXCEPT ![p] = c]

Swap(s, p) == [s EXCEPT ![p] = s[p + 1], ![p + 1] = s[p]]

Swapped == Related("swapped", frames[1].b, frames[1].a)

Inserted ==
    \E p \in 0..Len(frames[1].a), c \in EditAlphabet :
        Related("insert", Insert(frames[1].a, p, c), frames[1].b)

Deleted ==
    \E p \in 1..Len(frames[1].a) :
        Related("delete", Delete(frames[1].a, p), frames[1].b)

Substituted ==
    \E p \in 1..Len(frames[1].a) : \E c \in EditAlphabet \ {frames[1].a[p]} :
        Related("substitute", Subst(frames[1].a, p, c), frames[1].b)

Transposed ==
    \E p \in 1..(Len(frames[1].a) - 1) :
        Related("transpose", Swap(frames[1].a, p), frames[1].b)

InitFresh == Issued({FreshSmallK, FreshMaxLen + 2}, FreshPairs)

NextFresh == Compute \/ Swapped

SpecFresh == InitFresh /\ [][NextFresh]_vars

InitEdit == Issued({EditSmallK, EditMaxLen + 3}, EditPairs)

NextEdit == Compute \/ Inserted \/ Deleted \/ Substituted \/ Transposed

SpecEdit == InitEdit /\ [][NextEdit]_vars

-----------------------------------------------------------------------------
(* SpecConc: two callers, each making one call of Distance on the same     *)
(* engine, with nothing that orders their statements: the statements of    *)
(* the two calls interleave. The matrix and the map are shared and         *)
(* unguarded. A map write that runs while the other caller is at a map     *)
(* read or write is a data race on a Go map, which the runtime may answer  *)
(* with a fatal error that ends the process.                               *)

\* longest input of SpecConc
ConcLen == 2

\* the first caller's a is any non-empty string of 'a' and 'b'; the other
\* three inputs are non-empty strings of 'a'
ConcA == Strs({97, 98}, ConcLen) \ {<< >>}

ConcB == Strs({97}, ConcLen) \ {<< >>}

Peer(p) == 3 - p

\* the call has executed a statement and has not ended
Started(f) == f.pc \notin {"idle", "switch", "done", "panic", "fatal"}

AtMapWrite(f) ==
    \/ f.pc = "reset" /\ f.k <= Len(Runes(f.a \o f.b))
    \/ f.pc = "setda"

AtMapAccess(f) ==
    \/ AtMapWrite(f)
    \/ f.pc = "cell" /\ f.j <= Len(f.b)

InitConc ==
    /\ Constructed({ConcLen + 2})
    /\ \E a1 \in ConcA, b1 \in ConcB, a2 \in ConcB, b2 \in ConcB :
         frames = [p \in Procs |-> IF p = 1 THEN Frame("switch", a1, b1)
                                   ELSE Frame("switch", a2, b2)]

\* caller p executes the statement its call stands at
ConcStep(p) ==
    /\ frames[p].pc \notin {"idle", "done", "panic", "fatal"}
    /\ \E st \in {Step(Engine, frames[p])} :
           /\ matrix' = st.t.matrix
           /\ da' = st.t.da
           /\ frames' = [frames EXCEPT ![p] = st.f]
    /\ overlapped' = (overlapped \/ Started(frames[Peer(p)]))
    /\ UNCHANGED <<maxSize, ncalls, other>>

\* the runtime detects the concurrent map access: fatal error, the process ends
MapFault(p) ==
    /\ AtMapWrite(frames[p])
    /\ AtMapAccess(frames[Peer(p)])
    /\ frames' = [q \in Procs |-> [frames[q] EXCEPT !.pc = "fatal"]]
    /\ UNCHANGED <<maxSize, matrix, da, ncalls, other, overlapped>>

NextConc == \E p \in Procs : ConcStep(p) \/ MapFault(p)

SpecConc == InitConc /\ [][NextConc]_vars

-----------------------------------------------------------------------------
(* The distance the claims speak of: the least number of single edits      *)
(* (insert, delete or substitute one byte, transpose two adjacent bytes)   *)
(* that turn a into b, found by breadth-first search over the strings.     *)

OneEdit(s, F, L) ==
    (IF Len(s) < L THEN {Insert(s, p, c) : p \in 0..Len(s), c \in F} ELSE {})
    \cup {Delete(s, p) : p \in 1..Len(s)}
    \cup {Subst(s, p, c) : p \in 1..Len(s), c \in F}
    \cup {Swap(s, p) : p \in 1..(Len(s) - 1)}

RECURSIVE EditLevels(_, _, _, _)
EditLevels(levels, seen, F, L) ==
    LET next == (UNION {OneEdit(s, F, L) : s \in levels[Len(levels)]}) \ seen
    IN  IF next = {} THEN levels
        ELSE EditLevels(Append(levels, next), seen \cup next, F, L)

\* EditTable[F][a][n + 1]: the strings over F at n edits from a
EditTable ==
    [F \in Families |->
        [a \in Strs(F, FreshMaxLen) |-> EditLevels(<<{a}>>, {a}, F, FreshMaxLen)] @@ << >>] @@ << >>

Bytes(s) == {s[p] : p \in 1..Len(s)}

TrueDL(a, b) ==
    LET F == CHOOSE G \in Families : Bytes(a) \cup Bytes(b) \subseteq G
        levels == EditTable[F][a]
    IN  (CHOOSE n \in 1..Len(levels) : b \in levels[n]) - 1

-----------------------------------------------------------------------------
\* the call made last on the engine
Last == frames[1]

LenA == Len(Last.a)

LenB == Len(Last.b)

\* Distance(a, b) of the last call's inputs on a freshly constructed engine
Fresh == Distance(New(maxSize), Last.a, Last.b).f

-----------------------------------------------------------------------------
(* Claims checked under SpecCap (C2, C6) and under Spec (C3, C4, C5). *)

\* C2 as stated: a call with an input longer than maxSize returns -1, whatever
\* the other input is, an empty one included.
C2_Original ==
    (Finished(Last) /\ (LenA > maxSize \/ LenB > maxSize))
        => (Last.pc = "done" /\ Last.ret = -1)

\* C2 as amended: a call with an input longer than maxSize returns -1 when
\* neither input is empty, and the length of the other input when one is empty.
C2_CapacityExceeded ==
    (Finished(Last) /\ (LenA > maxSize \/ LenB > maxSize))
        => /\ Last.pc = "done"
           /\ Last.ret = IF LenA = 0 THEN LenB ELSE IF LenB = 0 THEN LenA ELSE -1

C2_Witness ==
    /\ ncalls = CapCalls
    /\ Last.pc = "done"
    /\ LenA = 1
    /\ LenB > maxSize
    /\ Last.ret = -1

\* C3: on an engine built by New(k), k positive, a call whose inputs are both
\* no longer than k indexes the matrix within its bounds and returns.
C3_WithinCapacitySucceeds ==
    (Finished(Last) /\ maxSize > 0 /\ LenA <= maxSize /\ LenB <= maxSize)
        => Last.pc = "done"

\* C4: a call returns what the same call returns on a freshly constructed
\* engine of the same maxSize, whatever calls the engine served before.
C4_HistoryIndependent ==
    (Last.pc = "done" /\ Fresh.pc = "done") => Last.ret = Fresh.ret

\* C5: a call whose inputs are both within maxSize returns a non-negative
\* integer, so -1 is never a computed distance.
C5_NonNegative ==
    (Last.pc = "done" /\ LenA <= maxSize /\ LenB <= maxSize) => Last.ret >= 0

\* C6: a call with an empty input returns the length of the other input and
\* leaves the matrix and the last-seen table as they were.
C6_EmptyBoundary ==
    [][(frames'[1].a = << >> \/ frames'[1].b = << >>)
          => /\ frames'[1].pc = "done"
             /\ frames'[1].ret = IF frames'[1].a = << >> THEN Len(frames'[1].b)
                                 ELSE Len(frames'[1].a)
             /\ matrix' = matrix
             /\ da' = da]_vars

C6_Witness ==
    /\ ncalls = CapCalls
    /\ matrix[0][0] # 0
    /\ DOMAIN da # {}
    /\ Last.a = << >>
    /\ LenB > maxSize
    /\ Last.pc = "done"
    /\ Last.ret = LenB

-----------------------------------------------------------------------------
(* Claims checked under SpecFresh. *)

\* C1: on a freshly constructed engine, a call with two non-empty inputs that
\* returns a value other than -1 returns the least number of single-byte
\* insertions, deletions, substitutions and adjacent transpositions that turn
\* a into b.
C1_TrueDistance ==
    (Last.pc = "done" /\ LenA > 0 /\ LenB > 0 /\ Last.ret # -1)
        => Last.ret = TrueDL(Last.a, Last.b)

C1_Witness ==
    /\ Last.pc = "done"
    /\ Last.a = <<195, 97>>
    /\ Last.b = <<97, 169, 195>>
    /\ Last.ret = 2
    /\ TrueDL(Last.a, Last.b) = 2

\* C8: Distance(a, b) and Distance(b, a), each on a freshly constructed engine
\* of the same maxSize, end alike: both return, and return the same value, or
\* neither returns.
C8_Symmetry ==
    other.kind = "swapped"
        => /\ other.pc = Last.pc
           /\ Last.pc = "done" => other.ret = Last.ret

C8_Witness ==
    /\ other.kind = "swapped"
    /\ Last.pc = "done"
    /\ other.pc = "done"
    /\ Last.a = <<97, 98>>
    /\ Last.b = <<98, 99, 97>>
    /\ Last.ret = 2
    /\ other.ret = 2

\* b is a with two adjacent, distinct bytes swapped
IsAdjSwap(a, b) ==
    /\ Len(a) = Len(b)
    /\ \E p \in 1..(Len(a) - 1) : a[p] # a[p + 1] /\ b = Swap(a, p)

-----------------------------------------------------------------------------
(* Claims checked under SpecEdit. *)

\* both calls returned a distance, not the sentinel
BothComputed ==
    /\ Last.pc = "done"
    /\ other.pc = "done"
    /\ Last.ret # -1
    /\ other.ret # -1

Delta == other.ret - Last.ret

-----------------------------------------------------------------------------
(* Claim checked under SpecConc. *)

\* what caller p's call does when it is the only call on a fresh engine
Alone(p) == Distance(New(maxSize), frames[p].a, frames[p].b).f

\* C7: some interleaving of two calls on one engine makes a call return a
\* value other than the one it returns alone (C7_Witness is such a state);
\* a call returns its alone value whenever the two calls did not overlap.
C7_OnlyOverlapDiffers ==
    \A p \in Procs :
        (frames[p].pc \in {"done", "panic"} /\ ~overlapped)
            => /\ frames[p].pc = Alone(p).pc
               /\ frames[p].ret = Alone(p).ret

C7_Witness ==
    \E p \in Procs :
        /\ frames[p].pc = "done"
        /\ overlapped
        /\ Alone(p).pc = "done"
        /\ frames[p].ret # Alone(p).ret

====
